---- MODULE Spec2Model ----
(***************************************************************************)
(* Find My Blink (src/code.ts): the session state machine, the countdown   *)
(* ticker, the animation loops and the pure helpers (schedule calculator,  *)
(* config codec), as a state machine over a shared wall clock.             *)
(*                                                                         *)
(* Time is in milliseconds.  TLC integers are 32 bit, so the clock starts  *)
(* near 0 instead of near the real epoch; getNextStartTime only looks at   *)
(* the clock modulo 10 seconds.                                            *)
(* Strings that the code indexes, formats or parses are sequences of       *)
(* one-character strings.                                                  *)
(***************************************************************************)
EXTENDS Integers, Sequences, FiniteSets, TLC

VARIABLES now, sess, lastEvent, probe

vars == <<now, sess, lastEvent, probe>>

(***************************************************************************)
(* Bounds of the model                                                     *)
(***************************************************************************)
MaxTime == 9000
MaxPlays == 2
UserStep == 370
MaxLate == 60
MaxInstant == 10999

(***************************************************************************)
(* Enums and tables                                                        *)
(***************************************************************************)
WELCOME == "welcome"
COUNTDOWN == "countdown"
RUNNING == "running"

INITIATOR == "initiator"
RECEIVER == "receiver"

DOT == 250
DASH == 750
PollDelay == 100
TickerPeriod == 100

\* a variant of the table whose first entry has a blank between its groups
PATTERNS_WithBlank ==
  << << ".", ".", "-", " ", ".", ".", "-", ".", "-", "." >>,
     << ".", "-", ".", ".", "-", ".", ".", "-", ".", "." >>,
     << ".", ".", ".", "-", ".", ".", "-", ".", "-", "." >>,
     << ".", "-", ".", ".", ".", "-", ".", "-", ".", "." >>,
     << "-", ".", "-", ".", "-", ".", "-", "." >>,
     << ".", "-", ".", "-", ".", "-", ".", "-" >>,
     << "-", ".", ".", "-", ".", "-", ".", "-" >>,
     << ".", ".", "-", ".", "-", ".", "-", "-" >>,
     << "-", "-", "-", "-", "-", "." >>,
     << "-", "-", "-", "-", ".", "-" >> >>

\* a variant of the table whose ninth entry has one more dot
PATTERNS_ExtraDot ==
  << << ".", ".", "-", ".", ".", "-", ".", "-", ".", "." >>,
     << ".", "-", ".", ".", "-", ".", ".", "-", ".", "." >>,
     << ".", ".", ".", "-", ".", ".", "-", ".", "-", "." >>,
     << ".", "-", ".", ".", ".", "-", ".", "-", ".", "." >>,
     << "-", ".", "-", ".", "-", ".", "-", "." >>,
     << ".", "-", ".", "-", ".", "-", ".", "-" >>,
     << "-", ".", ".", "-", ".", "-", ".", "-" >>,
     << ".", ".", "-", ".", "-", ".", "-", "-" >>,
     << "-", "-", "-", "-", "-", ".", "." >>,
     << "-", "-", "-", "-", ".", "-" >> >>

PATTERNS ==
  << << ".", ".", "-", ".", ".", "-", ".", "-", ".", "." >>,
     << ".", "-", ".", ".", "-", ".", ".", "-", ".", "." >>,
     << ".", ".", ".", "-", ".", ".", "-", ".", "-", "." >>,
     << ".", "-", ".", ".", ".", "-", ".", "-", ".", "." >>,
     << "-", ".", "-", ".", "-", ".", "-", "." >>,
     << ".", "-", ".", "-", ".", "-", ".", "-" >>,
     << "-", ".", ".", "-", ".", "-", ".", "-" >>,
     << ".", ".", "-", ".", "-", ".", "-", "-" >>,
     << "-", "-", "-", "-", "-", "." >>,
     << "-", "-", "-", "-", ".", "-" >> >>

COLORS ==
  << "--color-secondary", "--color-accent", "--color-info",
     "--color-success", "--color-warning", "--color-error" >>

DefaultColor == "--color-base-200"

\* null for blinkConfig, and undefined for an array read out of range
Null == [isNull |-> TRUE]
Undefined == "undefined"

\* null for countdownIntervalId; setInterval hands out positive ids
NullId == 0

\* countdownText "&nbsp;"; "Starting in n" is the number n
Blank == -1

\* getComputedStyle(...).getPropertyValue(name): the theme's value of a CSS
\* variable; the theme is outside the program, its values are named after
\* the variable
CssValue(name) == <<"value-of", name>>

(***************************************************************************)
(* ScheduleCalculator                                                      *)
(***************************************************************************)
RECURSIVE FindStartSecond(_, _, _)
FindStartSecond(candidateSecond, digit1, digit2) ==
  LET lastDigit == candidateSecond % 10
  IN  IF lastDigit = digit1 \/ lastDigit = digit2
      THEN candidateSecond * 1000
      ELSE FindStartSecond(candidateSecond + 1, digit1, digit2)

\* a variant that looks for the digit itself only
getNextStartTime_OneDigit(digit, t) ==
  LET currentSecond == t \div 1000
      digit1 == digit % 10
  IN  FindStartSecond(currentSecond + 1, digit1, digit1)

\* a variant that starts the search at the current second
getNextStartTime_FromCurrentSecond(digit, t) ==
  LET currentSecond == t \div 1000
      digit1 == digit % 10
      digit2 == (digit + 5) % 10
  IN  FindStartSecond(currentSecond, digit1, digit2)

\* a variant that keeps the milliseconds of the clock in its result, as a
\* delay counted from now would
getNextStartTime_KeepMillis(digit, t) ==
  LET currentSecond == t \div 1000
      digit1 == digit % 10
      digit2 == (digit + 5) % 10
  IN  FindStartSecond(currentSecond + 1, digit1, digit2) + (t % 1000)

\* a variant that starts the search one second too late
getNextStartTime_SkipNextSecond(digit, t) ==
  LET currentSecond == t \div 1000
      digit1 == digit % 10
      digit2 == (digit + 5) % 10
  IN  FindStartSecond(currentSecond + 2, digit1, digit2)

\* a variant that takes the milliseconds of the clock off its result
getNextStartTime_LessMillis(digit, t) ==
  LET currentSecond == t \div 1000
      digit1 == digit % 10
      digit2 == (digit + 5) % 10
  IN  FindStartSecond(currentSecond + 1, digit1, digit2) - (t % 1000)

\* getNextStartTime(digit) with Date.now() = t
getNextStartTime(digit, t) ==
  LET currentSecond == t \div 1000
      digit1 == digit % 10
      digit2 == (digit + 5) % 10
  IN  FindStartSecond(currentSecond + 1, digit1, digit2)

(***************************************************************************)
(* Random generation of a config                                           *)
(***************************************************************************)
\* COLORS.filter(c => c !== color1)
RemainingColors(color1) == SelectSeq(COLORS, LAMBDA c : c # color1)

\* getRandomColors(); r1 = Math.floor(Math.random() * COLORS.length),
\* r2 = Math.floor(Math.random() * remaining.length)
getRandomColors(r1, r2) ==
  LET color1 == COLORS[r1 + 1]
      remaining == RemainingColors(color1)
  IN  [color1 |-> color1, color2 |-> remaining[r2 + 1]]

\* getRandomPattern(); r = Math.floor(Math.random() * PATTERNS.length)
getRandomPattern(r) == PATTERNS[r + 1]

\* The object literal of handlePlayClick: it calls getRandomColors twice,
\* takes color1 of the first result and color2 of the second.
\* d = <<r1, r2, r3, r4, rp, rt>>, the six random draws in call order
NewBlinkConfig(d) ==
  [color1 |-> getRandomColors(d[1], d[2]).color1,
   color2 |-> getRandomColors(d[3], d[4]).color2,
   pattern |-> getRandomPattern(d[5]),
   timeOffset |-> d[6]]

\* every outcome of the six draws
AllDraws ==
  (0..5) \X (0..4) \X (0..5) \X (0..4) \X (0..9) \X (0..4)

(***************************************************************************)
(* ConfigCodec.  A query string is the list of the key/value pairs that    *)
(* URLSearchParams holds; a value is a sequence of characters.             *)
(***************************************************************************)
\* the result of parseInt on a string with no leading number
NaN == -999999

JsLt(a, b) == a # NaN /\ b # NaN /\ a < b
JsGt(a, b) == a # NaN /\ b # NaN /\ a > b
JsGe(a, b) == a # NaN /\ b # NaN /\ a >= b

DecimalDigits == << "0", "1", "2", "3", "4", "5", "6", "7", "8", "9" >>

\* Array.prototype.indexOf, 0-based, -1 when absent
IndexOf(arr, x) ==
  IF \E j \in 1..Len(arr) : arr[j] = x
  THEN (CHOOSE j \in 1..Len(arr) :
          arr[j] = x /\ \A h \in 1..(j - 1) : arr[h] # x) - 1
  ELSE -1

\* arr[index] of JavaScript, 0-based: undefined out of range or for NaN
ArrayGet(arr, index, undef) ==
  IF index # NaN /\ index >= 0 /\ index < Len(arr) THEN arr[index + 1] ELSE undef

RECURSIVE NatToString(_)
NatToString(n) ==
  IF n < 10 THEN << DecimalDigits[n + 1] >>
  ELSE NatToString(n \div 10) \o << DecimalDigits[(n % 10) + 1] >>

\* Number.prototype.toString() of an integer
NumberToString(n) == IF n < 0 THEN << "-" >> \o NatToString(-n) ELSE NatToString(n)

HexDigitsLower ==
  DecimalDigits \o << "a", "b", "c", "d", "e", "f" >>
HexDigitsUpper ==
  DecimalDigits \o << "A", "B", "C", "D", "E", "F" >>

\* the value of ch as a digit of the radix, -1 if it is none
DigitValue(ch, radix) ==
  LET v == IF IndexOf(HexDigitsLower, ch) >= 0
           THEN IndexOf(HexDigitsLower, ch) ELSE IndexOf(HexDigitsUpper, ch)
  IN  IF v < radix THEN v ELSE -1

RECURSIVE SkipSpaces(_)
SkipSpaces(s) == IF Len(s) > 0 /\ Head(s) = " " THEN SkipSpaces(Tail(s)) ELSE s

\* the longest prefix of digits of s, as a number; NaN if it is empty
RECURSIVE ParseDigits(_, _, _, _)
ParseDigits(s, radix, acc, seen) ==
  IF Len(s) > 0 /\ DigitValue(Head(s), radix) >= 0
  THEN ParseDigits(Tail(s), radix, acc * radix + DigitValue(Head(s), radix), TRUE)
  ELSE IF seen THEN acc ELSE NaN

\* parseInt(s) without a radix: leading blanks, an optional sign, an
\* optional 0x or 0X (then the radix is 16, else 10), then the longest run
\* of digits; anything after it is ignored
parseInt(s) ==
  LET t == SkipSpaces(s)
      neg == Len(t) > 0 /\ Head(t) = "-"
      signed == Len(t) > 0 /\ (Head(t) = "-" \/ Head(t) = "+")
      body == IF signed THEN Tail(t) ELSE t
      hex == Len(body) >= 2 /\ body[1] = "0" /\ (body[2] = "x" \/ body[2] = "X")
      n == IF hex THEN ParseDigits(Tail(Tail(body)), 16, 0, FALSE)
           ELSE ParseDigits(body, 10, 0, FALSE)
  IN  IF n = NaN THEN NaN ELSE IF neg THEN -n ELSE n

\* URLSearchParams.has / .get (the first pair with that key)
ParamsHas(params, key) == \E j \in 1..Len(params) : params[j].key = key
ParamsGet(params, key) ==
  params[CHOOSE j \in 1..Len(params) :
           params[j].key = key /\ \A h \in 1..(j - 1) : params[h].key # key].value

NoQuery == << >>

\* generateShareUrl() for a present blinkConfig: the query part of the URL
\* (origin and path are those of the page itself)
generateShareUrl(config) ==
  << [key |-> "c1", value |-> NumberToString(IndexOf(COLORS, config.color1))],
     [key |-> "c2", value |-> NumberToString(IndexOf(COLORS, config.color2))],
     [key |-> "p", value |-> NumberToString(IndexOf(PATTERNS, config.pattern))],
     [key |-> "t", value |-> NumberToString(config.timeOffset)] >>

\* a variant whose range check of t rejects 9
decodeUrl_OffsetBelowNine(params) ==
  IF ~ParamsHas(params, "c1") \/ ~ParamsHas(params, "c2")
     \/ ~ParamsHas(params, "p") \/ ~ParamsHas(params, "t")
  THEN Null
  ELSE
    LET color1Index == parseInt(ParamsGet(params, "c1"))
        color2Index == parseInt(ParamsGet(params, "c2"))
        patternIndex == parseInt(ParamsGet(params, "p"))
        timeOffset == parseInt(ParamsGet(params, "t"))
    IN  IF JsLt(color1Index, 0) \/ JsGe(color1Index, Len(COLORS))
           \/ JsLt(color2Index, 0) \/ JsGe(color2Index, Len(COLORS))
           \/ JsLt(patternIndex, 0) \/ JsGe(patternIndex, Len(PATTERNS))
           \/ JsLt(timeOffset, 0) \/ JsGe(timeOffset, 9)
        THEN Null
        ELSE [color1 |-> ArrayGet(COLORS, color1Index, Undefined),
              color2 |-> ArrayGet(COLORS, color2Index, Undefined),
              pattern |-> ArrayGet(PATTERNS, patternIndex, << Undefined >>),
              timeOffset |-> timeOffset]

\* a variant whose upper range check of c1 is off by one
decodeUrl_ColorIndexUpToLength(params) ==
  IF ~ParamsHas(params, "c1") \/ ~ParamsHas(params, "c2")
     \/ ~ParamsHas(params, "p") \/ ~ParamsHas(params, "t")
  THEN Null
  ELSE
    LET color1Index == parseInt(ParamsGet(params, "c1"))
        color2Index == parseInt(ParamsGet(params, "c2"))
        patternIndex == parseInt(ParamsGet(params, "p"))
        timeOffset == parseInt(ParamsGet(params, "t"))
    IN  IF JsLt(color1Index, 0) \/ JsGt(color1Index, Len(COLORS))
           \/ JsLt(color2Index, 0) \/ JsGe(color2Index, Len(COLORS))
           \/ JsLt(patternIndex, 0) \/ JsGe(patternIndex, Len(PATTERNS))
           \/ JsLt(timeOffset, 0) \/ JsGt(timeOffset, 9)
        THEN Null
        ELSE [color1 |-> ArrayGet(COLORS, color1Index, Undefined),
              color2 |-> ArrayGet(COLORS, color2Index, Undefined),
              pattern |-> ArrayGet(PATTERNS, patternIndex, << Undefined >>),
              timeOffset |-> timeOffset]

\* decodeUrl() with window.location.search = params
decodeUrl(params) ==
  IF ~ParamsHas(params, "c1") \/ ~ParamsHas(params, "c2")
     \/ ~ParamsHas(params, "p") \/ ~ParamsHas(params, "t")
  THEN Null
  ELSE
    LET color1Index == parseInt(ParamsGet(params, "c1"))
        color2Index == parseInt(ParamsGet(params, "c2"))
        patternIndex == parseInt(ParamsGet(params, "p"))
        timeOffset == parseInt(ParamsGet(params, "t"))
    IN  IF JsLt(color1Index, 0) \/ JsGe(color1Index, Len(COLORS))
           \/ JsLt(color2Index, 0) \/ JsGe(color2Index, Len(COLORS))
           \/ JsLt(patternIndex, 0) \/ JsGe(patternIndex, Len(PATTERNS))
           \/ JsLt(timeOffset, 0) \/ JsGt(timeOffset, 9)
        THEN Null
        ELSE [color1 |-> ArrayGet(COLORS, color1Index, Undefined),
              color2 |-> ArrayGet(COLORS, color2Index, Undefined),
              pattern |-> ArrayGet(PATTERNS, patternIndex, << Undefined >>),
              timeOffset |-> timeOffset]

\* the valid configs: colours and pattern from the tables, timeOffset 0..9
ValidConfigs ==
  [color1 : {COLORS[j] : j \in 1..Len(COLORS)},
   color2 : {COLORS[j] : j \in 1..Len(COLORS)},
   pattern : {PATTERNS[j] : j \in 1..Len(PATTERNS)},
   timeOffset : 0..9]

(***************************************************************************)
(* One browser session.  sess[s] holds the module-level variables of       *)
(* code.ts, the parts of the page the code writes, and the timers and      *)
(* suspended async calls of the event loop.                                *)
(*   loops      one record per animateBackgroundColor call: the closure    *)
(*              (config, startTime, animationId, colour values), the       *)
(*              locals of runPattern (i, currentColor) and where it is     *)
(*              suspended (pc, and the instant its timer is due)           *)
(*   intervals  the live setInterval timers of the countdown ticker        *)
(*   pendingShares  handlePlayClick calls suspended at await tryShare      *)
(***************************************************************************)
Sessions == {1, 2}

NewSession ==
  [loaded |-> FALSE,
   currentState |-> WELCOME,
   currentRole |-> INITIATOR,
   blinkConfig |-> Null,
   isBackgroundFlashing |-> FALSE,
   shouldPauseBackground |-> TRUE,
   countdownIntervalId |-> NullId,
   currentAnimationId |-> 0,
   startTime |-> 0,
   backgroundColor |-> CssValue(DefaultColor),
   countdownText |-> Blank,
   playHidden |-> FALSE,
   cancelHidden |-> TRUE,
   instructions |-> INITIATOR,
   shareUrl |-> NoQuery,
   loops |-> << >>,
   intervals |-> {},
   nextTimerId |-> 1,
   pendingShares |-> 0,
   plays |-> 0]

\* clearInterval(id)
clearInterval(S, id) == [S EXCEPT !.intervals = {iv \in @ : iv.id # id}]

\* a variant that forgets the ticker without clearing its interval
updateUI_ForgetInterval(S) ==
  LET S1 == [S EXCEPT !.countdownIntervalId = NullId]
  IN  CASE S1.currentState = WELCOME ->
             [S1 EXCEPT !.playHidden = FALSE,
                        !.cancelHidden = TRUE,
                        !.countdownText = Blank,
                        !.shouldPauseBackground = TRUE,
                        !.isBackgroundFlashing = FALSE,
                        !.backgroundColor = CssValue(DefaultColor)]
        [] S1.currentState = COUNTDOWN ->
             [S1 EXCEPT !.playHidden = TRUE,
                        !.cancelHidden = FALSE,
                        !.countdownText = 3,
                        !.shouldPauseBackground = FALSE]
        [] S1.currentState = RUNNING ->
             [S1 EXCEPT !.playHidden = TRUE,
                        !.cancelHidden = FALSE,
                        !.shouldPauseBackground = FALSE]

\* a variant that clears the ticker only when it enters Welcome
updateUI_ClearTickerOnlyInWelcome(S) ==
  LET S1 == IF S.countdownIntervalId # NullId /\ S.currentState = WELCOME
            THEN [clearInterval(S, S.countdownIntervalId)
                    EXCEPT !.countdownIntervalId = NullId]
            ELSE S
  IN  CASE S1.currentState = WELCOME ->
             [S1 EXCEPT !.playHidden = FALSE,
                        !.cancelHidden = TRUE,
                        !.countdownText = Blank,
                        !.shouldPauseBackground = TRUE,
                        !.isBackgroundFlashing = FALSE,
                        !.backgroundColor = CssValue(DefaultColor)]
        [] S1.currentState = COUNTDOWN ->
             [S1 EXCEPT !.playHidden = TRUE,
                        !.cancelHidden = FALSE,
                        !.countdownText = 3,
                        !.shouldPauseBackground = FALSE]
        [] S1.currentState = RUNNING ->
             [S1 EXCEPT !.playHidden = TRUE,
                        !.cancelHidden = FALSE,
                        !.shouldPauseBackground = FALSE]

\* a variant whose COUNTDOWN case leaves the pause flag as it is
updateUI_CountdownKeepsPause(S) ==
  LET S1 == IF S.countdownIntervalId # NullId
            THEN [clearInterval(S, S.countdownIntervalId)
                    EXCEPT !.countdownIntervalId = NullId]
            ELSE S
  IN  CASE S1.currentState = WELCOME ->
             [S1 EXCEPT !.playHidden = FALSE,
                        !.cancelHidden = TRUE,
                        !.countdownText = Blank,
                        !.shouldPauseBackground = TRUE,
                        !.isBackgroundFlashing = FALSE,
                        !.backgroundColor = CssValue(DefaultColor)]
        [] S1.currentState = COUNTDOWN ->
             [S1 EXCEPT !.playHidden = TRUE,
                        !.cancelHidden = FALSE,
                        !.countdownText = 3]
        [] S1.currentState = RUNNING ->
             [S1 EXCEPT !.playHidden = TRUE,
                        !.cancelHidden = FALSE,
                        !.shouldPauseBackground = FALSE]

updateUI(S) ==
  LET S1 == IF S.countdownIntervalId # NullId
            THEN [clearInterval(S, S.countdownIntervalId)
                    EXCEPT !.countdownIntervalId = NullId]
            ELSE S
  IN  CASE S1.currentState = WELCOME ->
             [S1 EXCEPT !.playHidden = FALSE,
                        !.cancelHidden = TRUE,
                        !.countdownText = Blank,
                        !.shouldPauseBackground = TRUE,
                        !.isBackgroundFlashing = FALSE,
                        !.backgroundColor = CssValue(DefaultColor)]
        [] S1.currentState = COUNTDOWN ->
             [S1 EXCEPT !.playHidden = TRUE,
                        !.cancelHidden = FALSE,
                        !.countdownText = 3,
                        !.shouldPauseBackground = FALSE]
        [] S1.currentState = RUNNING ->
             [S1 EXCEPT !.playHidden = TRUE,
                        !.cancelHidden = FALSE,
                        !.shouldPauseBackground = FALSE]

setState(S, newState) == updateUI([S EXCEPT !.currentState = newState])

(***************************************************************************)
(* CountdownTicker                                                         *)
(***************************************************************************)
\* a variant that rounds down: Math.floor(timeLeft / 1000)
CeilSeconds_Floor(timeLeft) == timeLeft \div 1000

\* Math.ceil(timeLeft / 1000) for timeLeft > 0
CeilSeconds(timeLeft) == (timeLeft + 999) \div 1000

\* a variant that forgets the ticker, when the time is up, without clearing
\* its interval
updateCountdown_ForgetInterval(S, target, t) ==
  LET timeLeft == target - t
  IN  IF timeLeft <= 0
      THEN [S EXCEPT !.countdownIntervalId = NullId]
      ELSE [S EXCEPT !.countdownText = CeilSeconds(timeLeft)]

\* updateCountdown() of the ticker started for target, at Date.now() = t
updateCountdown(S, target, t) ==
  LET timeLeft == target - t
  IN  IF timeLeft <= 0
      THEN [(IF S.countdownIntervalId # NullId
             THEN clearInterval(S, S.countdownIntervalId) ELSE S)
              EXCEPT !.countdownIntervalId = NullId]
      ELSE [S EXCEPT !.countdownText = CeilSeconds(timeLeft)]

startCountdown(S, target, t) ==
  LET S1 == IF S.countdownIntervalId # NullId
            THEN clearInterval(S, S.countdownIntervalId) ELSE S
      S2 == updateCountdown(S1, target, t)
      id == S2.nextTimerId
  IN  [S2 EXCEPT !.countdownIntervalId = id,
                 !.nextTimerId = id + 1,
                 !.intervals = @ \cup {[id |-> id, target |-> target,
                                        due |-> t + TickerPeriod]}]

(***************************************************************************)
(* AnimationEngine: animateBackgroundColor and its runPattern closure.     *)
(* pc of a loop: "pause" (the 100 ms pause poll), "waitStart" (the wait    *)
(* for startTime), "step" (holding a pattern step), "nextCycle" (the wait  *)
(* for the next start time), "stopped" (returned without a timer).         *)
(***************************************************************************)
\* a variant that holds a dash as long as four dots
Duration_LongDash(char) == IF char = "." THEN DOT ELSE IF char = "-" THEN 4 * DOT ELSE 0

\* a variant that holds a dash as long as two dots
Duration_ShortDash(char) == IF char = "." THEN DOT ELSE IF char = "-" THEN 2 * DOT ELSE 0

Duration(char) == IF char = "." THEN DOT ELSE IF char = "-" THEN DASH ELSE 0

\* await new Promise(resolve => setTimeout(resolve, delay)) at Date.now() = t
Suspend(S, k, pc, t, delay) ==
  [S EXCEPT !.loops[k].pc = pc, !.loops[k].due = t + delay]

\* return
Stop(S, k) == [S EXCEPT !.loops[k].pc = "stopped", !.loops[k].due = 0]

IsStale(S, k) == S.loops[k].animationId # S.currentAnimationId

ResetBackground(S) ==
  [S EXCEPT !.backgroundColor = CssValue(DefaultColor),
            !.isBackgroundFlashing = FALSE]

RECURSIVE runPattern(_, _, _)

\* a variant that runs the pattern once: it returns when the pattern is
\* complete
PatternLoop_Once(S, k, t) ==
  LET l == S.loops[k]
  IN  IF l.i < Len(l.config.pattern)
      THEN IF IsStale(S, k)
           THEN Stop(ResetBackground(S), k)
           ELSE IF S.shouldPauseBackground
           THEN Suspend(ResetBackground(S), k, "pause", t, PollDelay)
           ELSE Suspend([S EXCEPT !.backgroundColor = l.currentColor], k, "step",
                        t, Duration(l.config.pattern[l.i + 1]))
      ELSE Stop(ResetBackground(S), k)

\* a variant of the for loop that returns, instead of polling, when the
\* pause flag is set
PatternLoop_ReturnWhenPaused(S, k, t) ==
  LET l == S.loops[k]
  IN  IF l.i < Len(l.config.pattern)
      THEN IF IsStale(S, k)
           THEN Stop(ResetBackground(S), k)
           ELSE IF S.shouldPauseBackground
           THEN Stop(ResetBackground(S), k)
           ELSE Suspend([S EXCEPT !.backgroundColor = l.currentColor], k, "step",
                        t, Duration(l.config.pattern[l.i + 1]))
      ELSE LET S1 == ResetBackground(S)
               nextStartTime == getNextStartTime(l.config.timeOffset, t)
               delayUntilNext == nextStartTime - t
           IN  IF delayUntilNext > 0
               THEN Suspend(S1, k, "nextCycle", t, delayUntilNext)
               ELSE runPattern(S1, k, t)

\* a variant of the for loop that checks the generation but not the pause flag
PatternLoop_NoPauseCheck(S, k, t) ==
  LET l == S.loops[k]
  IN  IF l.i < Len(l.config.pattern)
      THEN IF IsStale(S, k)
           THEN Stop(ResetBackground(S), k)
           ELSE Suspend([S EXCEPT !.backgroundColor = l.currentColor], k, "step",
                        t, Duration(l.config.pattern[l.i + 1]))
      ELSE LET S1 == ResetBackground(S)
               nextStartTime == getNextStartTime(l.config.timeOffset, t)
               delayUntilNext == nextStartTime - t
           IN  IF delayUntilNext > 0
               THEN Suspend(S1, k, "nextCycle", t, delayUntilNext)
               ELSE runPattern(S1, k, t)

\* the for loop of runPattern from its condition, with the locals i and
\* currentColor of loop k, up to the next await or return
PatternLoop(S, k, t) ==
  LET l == S.loops[k]
  IN  IF l.i < Len(l.config.pattern)
      THEN IF IsStale(S, k)
           THEN Stop(ResetBackground(S), k)
           ELSE IF S.shouldPauseBackground
           THEN Suspend(ResetBackground(S), k, "pause", t, PollDelay)
           ELSE Suspend([S EXCEPT !.backgroundColor = l.currentColor], k, "step",
                        t, Duration(l.config.pattern[l.i + 1]))
      ELSE LET S1 == ResetBackground(S)
               nextStartTime == getNextStartTime(l.config.timeOffset, t)
               delayUntilNext == nextStartTime - t
           IN  IF delayUntilNext > 0
               THEN Suspend(S1, k, "nextCycle", t, delayUntilNext)
               ELSE runPattern(S1, k, t)

\* runPattern from "Check again after waiting" to the next await or return
AfterStartWait(S, k, t) ==
  IF IsStale(S, k) \/ S.shouldPauseBackground
  THEN IF S.shouldPauseBackground
       THEN Suspend(S, k, "pause", t, PollDelay)
       ELSE Stop(S, k)
  ELSE LET S1 == setState([S EXCEPT !.isBackgroundFlashing = TRUE], RUNNING)
           S2 == [S1 EXCEPT !.loops[k].currentColor = S.loops[k].color1Value,
                            !.loops[k].i = 0]
       IN  PatternLoop(S2, k, t)

\* a variant without the generation check at the entry of runPattern
runPattern_NoGenerationCheck(S, k, t) ==
  IF S.shouldPauseBackground THEN Suspend(S, k, "pause", t, PollDelay)
  ELSE LET waitTime == S.loops[k].startTime - t
       IN  IF waitTime > 0
           THEN Suspend(S, k, "waitStart", t, waitTime)
           ELSE AfterStartWait(S, k, t)

\* a variant that returns, instead of polling, when the pause flag is set
runPattern_ReturnWhenPaused(S, k, t) ==
  IF IsStale(S, k) THEN Stop(S, k)
  ELSE IF S.shouldPauseBackground THEN Stop(S, k)
  ELSE LET waitTime == S.loops[k].startTime - t
       IN  IF waitTime > 0
           THEN Suspend(S, k, "waitStart", t, waitTime)
           ELSE AfterStartWait(S, k, t)

\* runPattern() from its entry to the next await or return
runPattern(S, k, t) ==
  IF IsStale(S, k) THEN Stop(S, k)
  ELSE IF S.shouldPauseBackground THEN Suspend(S, k, "pause", t, PollDelay)
  ELSE LET waitTime == S.loops[k].startTime - t
       IN  IF waitTime > 0
           THEN Suspend(S, k, "waitStart", t, waitTime)
           ELSE AfterStartWait(S, k, t)

\* a variant that toggles the colour only after a step that was held
ResumeLoop_ToggleOnlyAfterHold(S, k, t) ==
  LET l == S.loops[k]
  IN  CASE l.pc = "pause" -> runPattern(S, k, t)
        [] l.pc = "waitStart" -> AfterStartWait(S, k, t)
        [] l.pc = "step" ->
             PatternLoop([S EXCEPT !.loops[k].currentColor =
                                     IF Duration(l.config.pattern[l.i + 1]) = 0
                                     THEN l.currentColor
                                     ELSE IF l.currentColor = l.color1Value
                                     THEN l.color2Value ELSE l.color1Value,
                                   !.loops[k].i = l.i + 1], k, t)
        [] l.pc = "nextCycle" -> runPattern(S, k, t)

\* the continuation of loop k when the timer it awaits has fired
ResumeLoop(S, k, t) ==
  LET l == S.loops[k]
  IN  CASE l.pc = "pause" -> runPattern(S, k, t)
        [] l.pc = "waitStart" -> AfterStartWait(S, k, t)
        [] l.pc = "step" ->
             PatternLoop([S EXCEPT !.loops[k].currentColor =
                                     IF l.currentColor = l.color1Value
                                     THEN l.color2Value ELSE l.color1Value,
                                   !.loops[k].i = l.i + 1], k, t)
        [] l.pc = "nextCycle" -> runPattern(S, k, t)

animateBackgroundColor(S, config, startTime, animationId, t) ==
  LET l == [animationId |-> animationId,
            config |-> config,
            startTime |-> startTime,
            color1Value |-> CssValue(config.color1),
            color2Value |-> CssValue(config.color2),
            currentColor |-> CssValue(config.color1),
            i |-> 0,
            pc |-> "entry",
            due |-> 0]
      S1 == [S EXCEPT !.loops = Append(@, l)]
  IN  runPattern(S1, Len(S1.loops), t)

(***************************************************************************)
(* Page load and the click handlers                                        *)
(***************************************************************************)
\* the DOMContentLoaded handler with window.location.search = query
DOMContentLoaded(query) ==
  LET S0 == updateUI([NewSession EXCEPT !.loaded = TRUE])
      decodedConfig == decodeUrl(query)
  IN  IF decodedConfig # Null
      THEN [S0 EXCEPT !.blinkConfig = decodedConfig,
                      !.currentRole = RECEIVER,
                      !.instructions = RECEIVER]
      ELSE S0

\* a variant that starts the loop without a new generation
StartBlinking_KeepGeneration(S, t) ==
  LET S2 == setState(S, COUNTDOWN)
  IN  IF S2.blinkConfig # Null
      THEN LET st == getNextStartTime(S2.blinkConfig.timeOffset, t)
               S3 == startCountdown([S2 EXCEPT !.startTime = st], st, t)
           IN  animateBackgroundColor(S3, S3.blinkConfig, st,
                                      S3.currentAnimationId, t)
      ELSE S2

\* handlePlayClick from "Start countdown/blinking" to its end
StartBlinking(S, t) ==
  LET S1 == setState(S, COUNTDOWN)
      S2 == [S1 EXCEPT !.currentAnimationId = @ + 1]
  IN  IF S2.blinkConfig # Null
      THEN LET st == getNextStartTime(S2.blinkConfig.timeOffset, t)
               S3 == startCountdown([S2 EXCEPT !.startTime = st], st, t)
           IN  animateBackgroundColor(S3, S3.blinkConfig, st,
                                      S3.currentAnimationId, t)
      ELSE S2

\* a variant that generates a config on every Play of an Initiator
PlayClicked_AlwaysGenerate(S, d, t) ==
  IF S.currentRole = INITIATOR
  THEN LET config == NewBlinkConfig(d)
       IN  [S EXCEPT !.blinkConfig = config,
                     !.shareUrl = generateShareUrl(config),
                     !.pendingShares = @ + 1]
  ELSE StartBlinking(S, t)

\* handlePlayClick up to its first suspension: either the whole handler, or
\* the generation of the config and of the share URL, left at await tryShare
PlayClicked(S, d, t) ==
  IF S.blinkConfig = Null /\ S.currentRole = INITIATOR
  THEN LET config == NewBlinkConfig(d)
       IN  [S EXCEPT !.blinkConfig = config,
                     !.shareUrl = generateShareUrl(config),
                     !.pendingShares = @ + 1]
  ELSE StartBlinking(S, t)

\* a variant that also discards the config that could not be shared
showShareFallback_DropConfig(S) ==
  [S EXCEPT !.instructions = "fallback", !.blinkConfig = Null]

\* showShareFallback: the instructions are replaced by the link to copy
showShareFallback(S) == [S EXCEPT !.instructions = "fallback"]

\* a variant that also puts the role back to its initial value
handleCancelClickOn_ResetRole(S) ==
  setState([S EXCEPT !.blinkConfig = Null,
                     !.currentRole = INITIATOR,
                     !.instructions = INITIATOR], WELCOME)

\* a variant that keeps the config
handleCancelClickOn_KeepConfig(S) ==
  setState([S EXCEPT !.instructions = S.currentRole], WELCOME)

handleCancelClickOn(S) ==
  setState([S EXCEPT !.blinkConfig = Null,
                     !.instructions = S.currentRole], WELCOME)

(***************************************************************************)
(* The environment: the wall clock, the user and the random source.        *)
(* The user clicks, and a share sheet closes, at instants that are         *)
(* multiples of UserStep.  A timer fires at its due instant or up to       *)
(* MaxLate later, in any order among the timers that are due.              *)
(***************************************************************************)
\* the outcomes of the six random draws of a Play that the model explores
PlayDraws == { <<0, 0, 3, 1, 8, 1>>, <<2, 0, 0, 1, 4, 3>> }

\* the queries a page is loaded with
LoadQueries ==
  { NoQuery,
    generateShareUrl([color1 |-> COLORS[2], color2 |-> COLORS[5],
                      pattern |-> PATTERNS[9], timeOffset |-> 7]) }

UserMayAct == now % UserStep = 0

LiveLoops(S) == {k \in 1..Len(S.loops) : S.loops[k].pc # "stopped"}

Deadlines(S) ==
  {S.loops[k].due : k \in LiveLoops(S)} \cup {iv.due : iv \in S.intervals}

AllDeadlines == UNION {Deadlines(sess[s]) : s \in Sessions}

SetMin(T) == CHOOSE x \in T : \A y \in T : x <= y

NextClickInstant == ((now \div UserStep) + 1) * UserStep

\* the next instant at which a timer falls due or the user may act
NextInstant ==
  SetMin({d \in AllDeadlines : d > now} \cup {NextClickInstant})

handlePlayClick(s) ==
  /\ sess[s].loaded
  /\ ~sess[s].playHidden
  /\ sess[s].plays < MaxPlays
  /\ UserMayAct
  /\ \E d \in PlayDraws :
       sess' = [sess EXCEPT ![s] =
                  PlayClicked([sess[s] EXCEPT !.plays = @ + 1], d, now)]
  /\ lastEvent' = <<"play", s>>
  /\ UNCHANGED <<now, probe>>

\* navigator.share resolved: tryShare returns true, handlePlayClick goes on
ShareSucceeds(s) ==
  /\ sess[s].pendingShares > 0
  /\ UserMayAct
  /\ sess' = [sess EXCEPT ![s] =
                StartBlinking([sess[s] EXCEPT !.pendingShares = @ - 1], now)]
  /\ lastEvent' = <<"shared", s>>
  /\ UNCHANGED <<now, probe>>

\* navigator.share absent or rejected: tryShare returns false
ShareFails(s) ==
  /\ sess[s].pendingShares > 0
  /\ UserMayAct
  /\ sess' = [sess EXCEPT ![s] =
                showShareFallback([sess[s] EXCEPT !.pendingShares = @ - 1])]
  /\ lastEvent' = <<"shareFailed", s>>
  /\ UNCHANGED <<now, probe>>

handleCancelClick(s) ==
  /\ sess[s].loaded
  /\ ~sess[s].cancelHidden
  /\ UserMayAct
  /\ sess' = [sess EXCEPT ![s] = handleCancelClickOn(sess[s])]
  /\ lastEvent' = <<"cancel", s>>
  /\ UNCHANGED <<now, probe>>

\* the timer awaited by loop k fires
LoopTimer(s, k) ==
  /\ k \in LiveLoops(sess[s])
  /\ sess[s].loops[k].due <= now
  /\ sess' = [sess EXCEPT ![s] = ResumeLoop(sess[s], k, now)]
  /\ lastEvent' = <<"loop", s>>
  /\ UNCHANGED <<now, probe>>

\* a tick of a countdown interval
TickerTimer(s) ==
  /\ \E iv \in sess[s].intervals :
       /\ iv.due <= now
       /\ LET S1 == [sess[s] EXCEPT !.intervals =
                       (@ \ {iv}) \cup {[iv EXCEPT !.due = @ + TickerPeriod]}]
          IN  sess' = [sess EXCEPT ![s] = updateCountdown(S1, iv.target, now)]
  /\ lastEvent' = <<"ticker", s>>
  /\ UNCHANGED <<now, probe>>

\* the clock moves on to the next instant at which something can happen,
\* once every timer that is due has fired
TickOnTime ==
  /\ \A d \in AllDeadlines : d > now
  /\ NextInstant <= MaxTime
  /\ now' = NextInstant
  /\ lastEvent' = <<"tick", 0>>
  /\ UNCHANGED <<sess, probe>>

\* setTimeout and setInterval promise no more than "not before": the clock
\* may also move on while a timer is due, as long as no timer gets more than
\* MaxLate behind
Tick ==
  /\ \A d \in AllDeadlines : d + MaxLate >= NextInstant
  /\ NextInstant <= MaxTime
  /\ now' = NextInstant
  /\ lastEvent' = <<"tick", 0>>
  /\ UNCHANGED <<sess, probe>>

NoProbe == [fn |-> "none"]

Init ==
  /\ now = 0
  /\ \E q \in LoadQueries :
       sess = [s \in Sessions |->
                 IF s = 1 THEN DOMContentLoaded(q) ELSE NewSession]
  /\ lastEvent = <<"load", 1>>
  /\ probe = NoProbe

Next ==
  \/ handlePlayClick(1)
  \/ ShareSucceeds(1)
  \/ ShareFails(1)
  \/ handleCancelClick(1)
  \/ \E k \in 1..MaxPlays : LoopTimer(1, k)
  \/ TickerTimer(1)
  \/ Tick

Spec == Init /\ [][Next]_vars

(***************************************************************************)
(* Two sessions on one wall clock: session 1 is opened without a query     *)
(* (the Initiator), session 2 is opened with the link that session 1 has   *)
(* generated (the Receiver).  Timers fire on time.  There is no Cancel:    *)
(* it discards the config, and from then on the two sessions no longer     *)
(* hold the same one.                                                      *)
(***************************************************************************)
\* the page of session s is opened with the URL that session 1 shared
OpenSharedLink(s) ==
  /\ ~sess[s].loaded
  /\ sess[1].shareUrl # NoQuery
  /\ UserMayAct
  /\ sess' = [sess EXCEPT ![s] = DOMContentLoaded(sess[1].shareUrl)]
  /\ lastEvent' = <<"load", s>>
  /\ UNCHANGED <<now, probe>>

InitSync ==
  /\ now = 0
  /\ sess = [s \in Sessions |->
               IF s = 1 THEN DOMContentLoaded(NoQuery) ELSE NewSession]
  /\ lastEvent = <<"load", 1>>
  /\ probe = NoProbe

NextSync ==
  \/ \E s \in Sessions : handlePlayClick(s)
  \/ ShareSucceeds(1)
  \/ ShareFails(1)
  \/ OpenSharedLink(2)
  \/ \E s \in Sessions : \E k \in 1..MaxPlays : LoopTimer(s, k)
  \/ \E s \in Sessions : TickerTimer(s)
  \/ TickOnTime

SpecSync == InitSync /\ [][NextSync]_vars

(***************************************************************************)
(* The pure helpers on their own: a probe holds the arguments of one call  *)
(* and, once applied, its result.  getNextStartTime reads the clock, so    *)
(* its instant is the variable now.                                        *)
(***************************************************************************)
IdleSessions == [s \in Sessions |-> NewSession]

InitPure ==
  /\ sess = IdleSessions
  /\ lastEvent = <<"load", 0>>
  /\ \/ /\ now \in 0..MaxInstant
        /\ \E d \in 0..9 :
             probe = [fn |-> "getNextStartTime", digit |-> d,
                      done |-> FALSE, result |-> 0]
     \/ /\ now = 0
        /\ \E c \in ValidConfigs :
             probe = [fn |-> "codec", config |-> c, url |-> NoQuery,
                      done |-> FALSE, result |-> Null]
     \/ /\ now \in 0..MaxInstant
        /\ \E d \in 0..9 :
             probe = [fn |-> "twoCalls", digit |-> d, calls |-> 0,
                      advanced |-> FALSE, t1 |-> 0, r1 |-> 0, t2 |-> 0,
                      r2 |-> 0]

ApplyGetNextStartTime ==
  /\ probe.fn = "getNextStartTime"
  /\ ~probe.done
  /\ probe' = [probe EXCEPT !.done = TRUE,
                            !.result = getNextStartTime(probe.digit, now)]
  /\ UNCHANGED <<now, sess, lastEvent>>

\* generateShareUrl with blinkConfig = probe.config
ApplyEncode ==
  /\ probe.fn = "codec"
  /\ probe.url = NoQuery
  /\ probe' = [probe EXCEPT !.url = generateShareUrl(probe.config)]
  /\ UNCHANGED <<now, sess, lastEvent>>

\* decodeUrl on the page opened with that URL
ApplyDecode ==
  /\ probe.fn = "codec"
  /\ probe.url # NoQuery
  /\ ~probe.done
  /\ probe' = [probe EXCEPT !.done = TRUE, !.result = decodeUrl(probe.url)]
  /\ UNCHANGED <<now, sess, lastEvent>>

\* the time that may pass between two calls of getNextStartTime
Gaps == {1, 500, 1000, 5000}

\* the first of two calls of getNextStartTime(digit)
FirstCall ==
  /\ probe.fn = "twoCalls"
  /\ probe.calls = 0
  /\ probe' = [probe EXCEPT !.calls = 1, !.t1 = now,
                            !.r1 = getNextStartTime(probe.digit, now)]
  /\ UNCHANGED <<now, sess, lastEvent>>

\* time passes between the two calls
ClockAdvances ==
  /\ probe.fn = "twoCalls"
  /\ probe.calls = 1
  /\ ~probe.advanced
  /\ \E g \in Gaps : now' = now + g
  /\ probe' = [probe EXCEPT !.advanced = TRUE]
  /\ UNCHANGED <<sess, lastEvent>>

\* the second call, with the same digit
SecondCall ==
  /\ probe.fn = "twoCalls"
  /\ probe.calls = 1
  /\ probe' = [probe EXCEPT !.calls = 2, !.t2 = now,
                            !.r2 = getNextStartTime(probe.digit, now)]
  /\ UNCHANGED <<now, sess, lastEvent>>

NextPure ==
  \/ ApplyGetNextStartTime
  \/ ApplyEncode
  \/ ApplyDecode
  \/ FirstCall
  \/ ClockAdvances
  \/ SecondCall

SpecPure == InitPure /\ [][NextPure]_vars

(***************************************************************************)
(* Page load on an arbitrary query string.  The probe holds, for each of   *)
(* the four keys, whether the query carries it, the text of its value and  *)
(* the integer that text denotes, if it denotes one.                       *)
(***************************************************************************)
QueryKeys == {"c1", "c2", "p", "t"}

\* the integers that are sent as their decimal text
QueryInts == {-1, 0, 5, 6, 9, 10}

QueryValues ==
  { [present |-> TRUE, text |-> NumberToString(n), isInt |-> TRUE, int |-> n] :
      n \in QueryInts }
  \cup
  { [present |-> FALSE, text |-> << >>, isInt |-> FALSE, int |-> 0],
    [present |-> TRUE, text |-> << >>, isInt |-> FALSE, int |-> 0],
    [present |-> TRUE, text |-> << "x" >>, isInt |-> FALSE, int |-> 0],
    [present |-> TRUE, text |-> << "3", "x" >>, isInt |-> TRUE, int |-> 3] }

QueryPair(args, key) ==
  IF args[key].present
  THEN << [key |-> key, value |-> args[key].text] >>
  ELSE << >>

\* window.location.search for the four arguments
QueryOf(args) ==
  QueryPair(args, "c1") \o QueryPair(args, "c2")
    \o QueryPair(args, "p") \o QueryPair(args, "t")

InitLoad ==
  /\ now = 0
  /\ sess = IdleSessions
  /\ lastEvent = <<"none", 0>>
  /\ \E args \in [QueryKeys -> QueryValues] :
       probe = [fn |-> "decodeUrl", args |-> args, done |-> FALSE,
                result |-> Null]

\* decodeUrl() on the page opened with the query of the probe
CallDecodeUrl ==
  /\ probe.fn = "decodeUrl"
  /\ ~probe.done
  /\ probe' = [probe EXCEPT !.done = TRUE,
                            !.result = decodeUrl(QueryOf(probe.args))]
  /\ UNCHANGED <<now, sess, lastEvent>>

\* the page of session 1 is opened with the query of the probe
LoadPage ==
  /\ probe.fn = "decodeUrl"
  /\ ~sess[1].loaded
  /\ sess' = [sess EXCEPT ![1] = DOMContentLoaded(QueryOf(probe.args))]
  /\ lastEvent' = <<"load", 1>>
  /\ UNCHANGED <<now, probe>>

NextLoad ==
  \/ CallDecodeUrl
  \/ LoadPage

SpecLoad == InitLoad /\ [][NextLoad]_vars

(***************************************************************************)
(* The animation engine on its own: animateBackgroundColor takes any       *)
(* config, so the page of session 1 holds one of EngineConfigs, whose      *)
(* patterns need not be entries of PATTERNS.  The user presses Play and    *)
(* then leaves the page alone; timers fire on time.                        *)
(***************************************************************************)
EngineConfigs ==
  { [color1 |-> COLORS[1], color2 |-> COLORS[2],
     pattern |-> << ".", ".", "-" >>, timeOffset |-> 2],
    [color1 |-> COLORS[4], color2 |-> COLORS[6],
     pattern |-> << ".", "x", "-", "x" >>, timeOffset |-> 9],
    [color1 |-> COLORS[3], color2 |-> COLORS[5],
     pattern |-> PATTERNS[9], timeOffset |-> 0] }

\* a loaded page whose blinkConfig is config
PageWithConfig(config) ==
  [DOMContentLoaded(NoQuery) EXCEPT !.blinkConfig = config,
                                    !.currentRole = RECEIVER,
                                    !.instructions = RECEIVER]

InitEngine ==
  /\ now = 0
  /\ \E c \in EngineConfigs :
       sess = [s \in Sessions |->
                 IF s = 1 THEN PageWithConfig(c) ELSE NewSession]
  /\ lastEvent = <<"load", 1>>
  /\ probe = NoProbe

NextEngine ==
  \/ handlePlayClick(1)
  \/ \E k \in 1..MaxPlays : LoopTimer(1, k)
  \/ TickerTimer(1)
  \/ TickOnTime

SpecEngine == InitEngine /\ [][NextEngine]_vars

(***************************************************************************)
(* The countdown ticker on its own: startCountdown takes any target, in    *)
(* the future or not.  It is called on a loaded page at instants at which  *)
(* the user may act, as often as there are timer ids; timers fire on time. *)
(***************************************************************************)
\* the targets of a call at now: in the past, now, and in the future
CountdownTargets == {now - 500, now, now + 250, now + 1000}

CallStartCountdown ==
  /\ sess[1].nextTimerId <= MaxPlays
  /\ UserMayAct
  /\ \E target \in CountdownTargets :
       sess' = [sess EXCEPT ![1] = startCountdown(sess[1], target, now)]
  /\ lastEvent' = <<"startCountdown", 1>>
  /\ UNCHANGED <<now, probe>>

NextTicker ==
  \/ CallStartCountdown
  \/ TickerTimer(1)
  \/ TickOnTime

SpecTicker == InitSync /\ [][NextTicker]_vars

(***************************************************************************)
(* getNextStartTime called twice within one second of the clock: with a    *)
(* digit, as the session that generated it does, and with that digit plus  *)
(* five modulo ten.                                                        *)
(***************************************************************************)
\* the time that may pass between the two calls
GapsInSecond == {1, 250, 999}

InitSameSecond ==
  /\ sess = IdleSessions
  /\ lastEvent = <<"load", 0>>
  /\ now \in 0..MaxInstant
  /\ \E d \in 0..9 :
       probe = [fn |-> "sameSecond", digit |-> d, calls |-> 0,
                advanced |-> FALSE, t1 |-> 0, r1 |-> 0, t2 |-> 0, r2 |-> 0]

\* getNextStartTime(digit)
CallWithDigit ==
  /\ probe.fn = "sameSecond"
  /\ probe.calls = 0
  /\ probe' = [probe EXCEPT !.calls = 1, !.t1 = now,
                            !.r1 = getNextStartTime(probe.digit, now)]
  /\ UNCHANGED <<now, sess, lastEvent>>

\* time passes, and the clock stays in the same second
ClockAdvancesInSecond ==
  /\ probe.fn = "sameSecond"
  /\ probe.calls = 1
  /\ ~probe.advanced
  /\ \E g \in GapsInSecond :
       /\ (now + g) \div 1000 = now \div 1000
       /\ now' = now + g
  /\ probe' = [probe EXCEPT !.advanced = TRUE]
  /\ UNCHANGED <<sess, lastEvent>>

\* getNextStartTime((digit + 5) % 10)
CallWithOtherDigit ==
  /\ probe.fn = "sameSecond"
  /\ probe.calls = 1
  /\ probe' = [probe EXCEPT !.calls = 2, !.t2 = now,
                            !.r2 = getNextStartTime((probe.digit + 5) % 10,
                                                    now)]
  /\ UNCHANGED <<now, sess, lastEvent>>

NextSameSecond ==
  \/ CallWithDigit
  \/ ClockAdvancesInSecond
  \/ CallWithOtherDigit

SpecSameSecond == InitSameSecond /\ [][NextSameSecond]_vars

(***************************************************************************)
(* Properties                                                              *)
(***************************************************************************)

\* C2: for every digit d in 0..9 and every instant now, getNextStartTime(d)
\* returns r with r > now, r a whole second, and the last decimal digit of
\* r/1000 equal to d or to (d+5) mod 10.
C2_NextStartTimeShape ==
  (probe.fn = "getNextStartTime" /\ probe.done) =>
     /\ probe.result > now
     /\ probe.result % 1000 = 0
     /\ (probe.result \div 1000) % 10 \in {probe.digit, (probe.digit + 5) % 10}

\* the clock is in a second that itself ends in d+5: the result is a later one
C2_Witness ==
  /\ probe.fn = "getNextStartTime" /\ probe.done
  /\ probe.digit = 2 /\ now = 7000 /\ probe.result = 12000

\* C9: every BlinkConfig generated by an Initiator Play has color1 different
\* from color2.
C9_GeneratedColorsDiffer ==
  \A s \in Sessions :
    (sess[s].currentRole = INITIATOR /\ sess[s].blinkConfig # Null) =>
       sess[s].blinkConfig.color1 # sess[s].blinkConfig.color2

\* C10: decoding the query string produced by encoding a valid config c
\* returns a config equal to c in all four fields.
C10_RoundTrip ==
  (probe.fn = "codec" /\ probe.done) =>
     /\ probe.result # Null
     /\ probe.result.color1 = probe.config.color1
     /\ probe.result.color2 = probe.config.color2
     /\ probe.result.pattern = probe.config.pattern
     /\ probe.result.timeOffset = probe.config.timeOffset

C10_Witness ==
  /\ probe.fn = "codec" /\ probe.done
  /\ probe.config.color1 = COLORS[6] /\ probe.config.color2 = COLORS[1]
  /\ probe.config.pattern = PATTERNS[10] /\ probe.config.timeOffset = 9
  /\ probe.url[3].value = << "9" >>
  /\ probe.result = probe.config

Phase(s) == sess[s].currentState

CurrentLoops(S) == {k \in LiveLoops(S) : ~IsStale(S, k)}

Neutral(S) ==
  S.backgroundColor = CssValue(DefaultColor) /\ ~S.isBackgroundFlashing

\* C3: an animation loop whose captured generation no longer equals
\* currentAnimationId never writes to the shared visual state when it wakes
\* from a wait: the step in which the timer of a stale loop fires leaves the
\* background colour and isBackgroundFlashing as they were.
C3_StaleLoopLeavesVisualState ==
  [][\A s \in Sessions : \A k \in 1..MaxPlays :
       (LoopTimer(s, k) /\ IsStale(sess[s], k)) =>
          /\ sess'[s].backgroundColor = sess[s].backgroundColor
          /\ sess'[s].isBackgroundFlashing = sess[s].isBackgroundFlashing]_vars

\* C4: whenever a Play has moved the phase to Countdown, the phase eventually
\* becomes Running.  Only a loop of the current generation sets Running, so
\* in every Countdown state such a loop must be waiting for its timer.
C4_CountdownLeadsToRunning ==
  \A s \in Sessions :
    Phase(s) = COUNTDOWN => CurrentLoops(sess[s]) # {}

\* C5: the phase changes only along Welcome->Countdown (by Play),
\* Countdown->Running (by the animation loop of the current generation) and
\* any phase->Welcome (by Cancel); never Welcome->Running, never
\* Running->Countdown.
C5_PhaseTransitions ==
  [][\A s \in Sessions :
       LET from == sess[s].currentState
           to == sess'[s].currentState
       IN  from # to =>
             \/ /\ from = WELCOME /\ to = COUNTDOWN
                /\ lastEvent' \in {<<"play", s>>, <<"shared", s>>}
             \/ /\ from = COUNTDOWN /\ to = RUNNING
                /\ lastEvent' = <<"loop", s>>
                /\ \E k \in CurrentLoops(sess[s]) : LoopTimer(s, k)
             \/ /\ to = WELCOME
                /\ lastEvent' = <<"cancel", s>>]_vars

\* C6: Cancel leaves the session, immediately, with phase = Welcome,
\* blinkConfig absent, the pause flag true, isBackgroundFlashing false, the
\* background neutral and no countdown ticker active.
C6_CancelResets ==
  \A s \in Sessions :
    lastEvent = <<"cancel", s>> =>
       /\ Phase(s) = WELCOME
       /\ sess[s].blinkConfig = Null
       /\ sess[s].shouldPauseBackground
       /\ Neutral(sess[s])
       /\ sess[s].countdownIntervalId = NullId
       /\ sess[s].intervals = {}

\* a Cancel pressed while a loop of the current generation holds a step
C6_Witness ==
  /\ lastEvent = <<"cancel", 1>>
  /\ \E k \in CurrentLoops(sess[1]) :
       sess[1].loops[k].pc = "step" /\ sess[1].loops[k].due > now

C8_NoFlashingWhilePaused ==
  \A s \in Sessions :
    (Phase(s) = WELCOME \/ sess[s].shouldPauseBackground) => Neutral(sess[s])

\* a loop timer has just fired in Welcome while two loops are alive
C8_Witness ==
  /\ lastEvent = <<"loop", 1>>
  /\ Phase(1) = WELCOME
  /\ Cardinality(LiveLoops(sess[1])) >= 2

\* every timer that is due has fired
Quiescent == \A d \in AllDeadlines : d > now

\* session s is flashing, and k is the loop of its current generation that
\* holds a pattern step
FlashingWith(s, k) ==
  /\ sess[s].isBackgroundFlashing
  /\ k \in CurrentLoops(sess[s])
  /\ sess[s].loops[k].pc = "step"

\* C1: two sessions that hold the same BlinkConfig and read the same clock,
\* with timers firing on time: at every instant at which both are flashing,
\* both are at the same pattern step and show the same colour, color1 or
\* color2 of the config.
C1_SessionsInStep ==
  Quiescent =>
    \A k1 \in 1..MaxPlays : \A k2 \in 1..MaxPlays :
      (/\ FlashingWith(1, k1) /\ FlashingWith(2, k2)
       /\ sess[1].loops[k1].config = sess[2].loops[k2].config) =>
         /\ sess[1].loops[k1].i = sess[2].loops[k2].i
         /\ sess[1].backgroundColor = sess[2].backgroundColor
         /\ sess[1].backgroundColor \in
              {CssValue(sess[1].loops[k1].config.color1),
               CssValue(sess[1].loops[k1].config.color2)}

\* both sessions show color2 in step 3, after Play was pressed in different
\* seconds
C1_Witness ==
  /\ Quiescent
  /\ \E k1 \in 1..MaxPlays : \E k2 \in 1..MaxPlays :
       /\ FlashingWith(1, k1) /\ FlashingWith(2, k2)
       /\ sess[1].loops[k1].config = sess[2].loops[k2].config
       /\ sess[1].loops[k1].config.color1 # sess[1].loops[k1].config.color2
       /\ sess[1].loops[k1].i = 3
       /\ sess[1].loops[k1].startTime # sess[2].loops[k2].startTime
       /\ sess[2].backgroundColor = CssValue(sess[1].loops[k1].config.color2)

\* the range the decoder allows for the value of a key
KeyRange(key) == IF key \in {"c1", "c2"} THEN 0..5 ELSE 0..9

ArgMissing(a) == ~a.present
ArgOutOfRange(a, key) == a.present /\ a.isInt /\ a.int \notin KeyRange(key)
ArgNotAnInteger(a) == a.present /\ ~a.isInt
ArgValid(a, key) == a.present /\ a.isInt /\ a.int \in KeyRange(key)

ColorSet == {COLORS[j] : j \in 1..Len(COLORS)}
PatternSet == {PATTERNS[j] : j \in 1..Len(PATTERNS)}

\* C11: decodeUrl returns null whenever any of c1, c2, p, t is missing, or
\* c1 or c2 is outside 0..5, or p is outside 0..9, or t is outside 0..9.
C11_MissingOrOutOfRangeIsNull ==
  (probe.fn = "decodeUrl" /\ probe.done) =>
     ((\E key \in QueryKeys :
         ArgMissing(probe.args[key]) \/ ArgOutOfRange(probe.args[key], key))
        => probe.result = Null)

\* all keys present, only c1 out of range, by one
C11_Witness ==
  /\ probe.fn = "decodeUrl" /\ probe.done
  /\ probe.args["c1"].present /\ probe.args["c1"].int = 6
  /\ \A key \in QueryKeys \ {"c1"} : ArgValid(probe.args[key], key)
  /\ probe.result = Null

\* C12: decodeUrl returns null whenever any of the four parameters is
\* present but not parseable as an integer; it never returns a config whose
\* color1, color2 or pattern is not an entry of its table or whose
\* timeOffset is not an integer in 0..9.
C12_MalformedIsNull ==
  (probe.fn = "decodeUrl" /\ probe.done) =>
     /\ (\E key \in QueryKeys : ArgNotAnInteger(probe.args[key]))
          => probe.result = Null
     /\ probe.result # Null =>
          /\ probe.result.color1 \in ColorSet
          /\ probe.result.color2 \in ColorSet
          /\ probe.result.pattern \in PatternSet
          /\ probe.result.timeOffset \in 0..9

\* C13: at load, the role becomes Receiver with the decoded config present
\* if and only if the query string carries all four parameters with valid
\* in-range integer values; for every other query string the role is
\* Initiator and the config is absent.
C13_RoleAtLoad ==
  (probe.fn = "decodeUrl" /\ sess[1].loaded) =>
     IF \A key \in QueryKeys : ArgValid(probe.args[key], key)
     THEN /\ sess[1].currentRole = RECEIVER
          /\ sess[1].blinkConfig # Null
     ELSE /\ sess[1].currentRole = INITIATOR
          /\ sess[1].blinkConfig = Null

\* C14: after load, the role is never changed by any Play, Cancel, share
\* completion or timer firing: currentRole is the same in every later state.
C14_RoleNeverChanges ==
  [][\A s \in Sessions :
       sess[s].loaded => sess'[s].currentRole = sess[s].currentRole]_vars

\* a Receiver after Play, Cancel, Play and the firing of a loop timer
C14_Witness ==
  /\ sess[1].currentRole = RECEIVER
  /\ sess[1].plays = 2
  /\ Phase(1) = COUNTDOWN
  /\ lastEvent = <<"loop", 1>>

\* C20: in every reachable state the pause flag is true exactly when the
\* phase is Welcome: shouldPauseBackground = (currentState = Welcome),
\* initially and after every transition.
C20_PausedExactlyInWelcome ==
  \A s \in Sessions :
    sess[s].shouldPauseBackground = (sess[s].currentState = WELCOME)

\* the second Play of a session, after a Cancel, has cleared the flag again
C20_Witness ==
  /\ lastEvent = <<"play", 1>>
  /\ sess[1].plays = 2
  /\ Phase(1) = COUNTDOWN
  /\ ~sess[1].shouldPauseBackground
  /\ LiveLoops(sess[1]) # {}

\* the colour that step i of loop l is to show
StepColour(l, i) ==
  IF i % 2 = 0 THEN CssValue(l.config.color1) ELSE CssValue(l.config.color2)

\* the time a step of character ch is to be held
StepHold(ch) == IF ch = "." THEN 250 ELSE IF ch = "-" THEN 750 ELSE 0

\* C15: within one uninterrupted run of the pattern, the steps are executed
\* in increasing index order with no step skipped or repeated; step i
\* (0-based) shows color1 when i is even and color2 when i is odd, and is
\* held 250 ms for '.', 750 ms for '-', and 0 ms for any other character,
\* which still toggles the colour.  In terms of the timer of the loop: the
\* firing that starts a run enters step 0, the firing that ends step i
\* enters step i+1 or, after the last step, ends the run; the step entered
\* shows its colour and its timer is set to its hold time from now.
C15_StepsInOrder ==
  [][\A k \in 1..MaxPlays :
       (/\ LoopTimer(1, k)
        /\ ~IsStale(sess[1], k)
        /\ ~sess[1].shouldPauseBackground
        /\ sess[1].loops[k].pc \in {"waitStart", "nextCycle", "step"}) =>
          LET l == sess[1].loops[k]
              l2 == sess'[1].loops[k]
              next == IF l.pc = "step" THEN l.i + 1 ELSE 0
          IN  IF next < Len(l.config.pattern)
              THEN /\ l2.pc = "step"
                   /\ l2.i = next
                   /\ sess'[1].backgroundColor = StepColour(l, next)
                   /\ sess'[1].isBackgroundFlashing
                   /\ l2.due = now + StepHold(l.config.pattern[next + 1])
              ELSE /\ l2.pc = "nextCycle"
                   /\ Neutral(sess'[1])]_vars

\* a character that is neither '.' nor '-' has just been passed: step 2
\* shows color1 again, and it was entered at the instant step 1 was
C15_Witness ==
  /\ lastEvent = <<"loop", 1>>
  /\ \E k \in CurrentLoops(sess[1]) :
       LET l == sess[1].loops[k]
       IN  /\ l.pc = "step" /\ l.i = 2
           /\ l.config.pattern[2] = "x"
           /\ l.config.color1 # l.config.color2
           /\ sess[1].backgroundColor = CssValue(l.config.color1)
           /\ l.due = l.startTime + 250 + 750

\* two seconds whose last digits are d and (d+5) mod 10 are 5 s apart: a
\* pattern shorter than that, started at T and run on time, starts again
\* at T + CyclePeriod
CyclePeriod == 5000

DotDotDash == << ".", ".", "-" >>

\* the time since the last start of a run of loop l, whose first run starts
\* at l.startTime
SinceStart(l) == (now - l.startTime) % CyclePeriod

\* C16 as stated: for the pattern "..-" started at instant T and not
\* interrupted, the background is color1 during [T, T+250), color2 during
\* [T+250, T+1000), and is reset to neutral at T+1000 after the last
\* character.
C16_DotDotDashUntil1000 ==
  \A k \in CurrentLoops(sess[1]) :
    LET l == sess[1].loops[k]
    IN  (Quiescent /\ l.config.pattern = DotDotDash /\ now >= l.startTime) =>
          /\ SinceStart(l) \in 0..249 =>
               sess[1].backgroundColor = CssValue(l.config.color1)
          /\ SinceStart(l) \in 250..999 =>
               sess[1].backgroundColor = CssValue(l.config.color2)
          /\ SinceStart(l) = 1000 => Neutral(sess[1])

\* C16 amended: for the pattern "..-" started at instant T and not
\* interrupted, the background is color1 during [T, T+250), color2 during
\* [T+250, T+500), color1 again during [T+500, T+1250), and is reset to
\* neutral at T+1250 after the last character, until the next run starts.
C16_DotDotDashUntil1250 ==
  \A k \in CurrentLoops(sess[1]) :
    LET l == sess[1].loops[k]
    IN  (Quiescent /\ l.config.pattern = DotDotDash /\ now >= l.startTime) =>
          /\ SinceStart(l) \in 0..249 =>
               sess[1].backgroundColor = CssValue(l.config.color1)
          /\ SinceStart(l) \in 250..499 =>
               sess[1].backgroundColor = CssValue(l.config.color2)
          /\ SinceStart(l) \in 500..1249 =>
               sess[1].backgroundColor = CssValue(l.config.color1)
          /\ SinceStart(l) \in 1250..(CyclePeriod - 1) => Neutral(sess[1])

\* the last character of the second run of "..-" has just been held
C16_Witness ==
  /\ lastEvent = <<"loop", 1>>
  /\ Quiescent
  /\ \E k \in CurrentLoops(sess[1]) :
       LET l == sess[1].loops[k]
       IN  /\ l.config.pattern = DotDotDash
           /\ l.config.color1 # l.config.color2
           /\ now = l.startTime + CyclePeriod + 1250
           /\ Neutral(sess[1])

\* C17: if no Play or Cancel occurs after the phase reaches Running, the
\* loop never terminates: after each completed pattern the background is
\* neutral and isBackgroundFlashing is false, the next cycle begins at
\* getNextStartTime(config.timeOffset) computed at the completion instant,
\* and flashing begins again, every time.  In terms of the timer of the
\* loop of the current generation, while the session is not paused: no
\* firing stops the loop; the firing that ends the last step resets the
\* background and sets the timer to that next start time; the firing of that
\* timer starts flashing again at step 0.
C17_LoopRepeats ==
  [][\A s \in Sessions : \A k \in 1..MaxPlays :
       (/\ LoopTimer(s, k)
        /\ ~IsStale(sess[s], k)
        /\ ~sess[s].shouldPauseBackground) =>
          LET l == sess[s].loops[k]
              l2 == sess'[s].loops[k]
          IN  /\ k \in LiveLoops(sess'[s])
              /\ (l.pc = "step" /\ l.i + 1 >= Len(l.config.pattern)) =>
                   /\ Neutral(sess'[s])
                   /\ l2.pc = "nextCycle"
                   /\ l2.due = getNextStartTime(l.config.timeOffset, now)
                   /\ l2.due > now
              /\ l.pc = "nextCycle" =>
                   /\ sess'[s].isBackgroundFlashing
                   /\ sess'[s].currentState = RUNNING
                   /\ l2.pc = "step" /\ l2.i = 0
                   /\ sess'[s].backgroundColor = l.color1Value]_vars

\* flashing has begun again: the loop has entered step 0 of a later run
C17_Witness ==
  /\ lastEvent = <<"loop", 1>>
  /\ Phase(1) = RUNNING
  /\ sess[1].isBackgroundFlashing
  /\ \E k \in CurrentLoops(sess[1]) :
       LET l == sess[1].loops[k]
       IN  /\ l.pc = "step" /\ l.i = 0
           /\ now >= l.startTime + CyclePeriod
           /\ sess[1].backgroundColor = l.color1Value

\* the start of the next whole second after now
NextSecondStart == ((now \div 1000) + 1) * 1000

\* the second of instant r ends in d or in (d+5) mod 10
DigitMatches(r, d) == (r \div 1000) % 10 \in {d, (d + 5) % 10}

\* C18 as stated: getNextStartTime(d) evaluated at now returns the smallest
\* instant that is strictly later than the start of the next whole second
\* after now and whose epoch-second's last decimal digit is d or
\* (d+5) mod 10.
C18_SmallestAfterNextSecond ==
  (probe.fn = "getNextStartTime" /\ probe.done) =>
     /\ probe.result > NextSecondStart
     /\ DigitMatches(probe.result, probe.digit)
     /\ \A r \in (NextSecondStart + 1)..(probe.result - 1) :
          ~DigitMatches(r, probe.digit)

\* C18 amended: getNextStartTime(d) evaluated at now returns the smallest
\* instant that is not earlier than the start of the next whole second
\* after now and whose epoch-second's last decimal digit is d or
\* (d+5) mod 10.  Every instant from that start up to the result lies in one
\* of the seconds in between, so it is enough that none of these matches.
C18_SmallestFromNextSecond ==
  (probe.fn = "getNextStartTime" /\ probe.done) =>
     /\ probe.result >= NextSecondStart
     /\ DigitMatches(probe.result, probe.digit)
     /\ probe.result % 1000 = 0
     /\ \A sec \in (NextSecondStart \div 1000)..((probe.result \div 1000) - 1) :
          ~DigitMatches(sec * 1000, probe.digit)

\* the next whole second itself ends in d+5: the result is its start
C18_Witness ==
  /\ probe.fn = "getNextStartTime" /\ probe.done
  /\ probe.digit = 7 /\ now = 1500
  /\ probe.result = 2000 /\ probe.result = NextSecondStart

\* C19: for a fixed digit d, getNextStartTime is monotonic in the clock: for
\* all instants t1 <= t2, the result at t1 is less than or equal to the
\* result at t2.
C19_Monotonic ==
  (probe.fn = "twoCalls" /\ probe.calls = 2) =>
     (probe.t1 <= probe.t2 => probe.r1 <= probe.r2)

\* the two calls are one millisecond apart, on both sides of the start of
\* a matching second: the results are 5 s apart
C19_Witness ==
  /\ probe.fn = "twoCalls" /\ probe.calls = 2
  /\ probe.digit = 3
  /\ probe.t1 = 7999 /\ probe.t2 = 8000
  /\ probe.r1 = 8000 /\ probe.r2 = 13000

\* C21: at most one countdown ticker interval is active at any time: over
\* any sequence of Play, Cancel and timer firings, starting a countdown
\* first cancels the previous interval, and no interval other than the one
\* recorded in countdownIntervalId keeps firing.
C21_OneTicker ==
  \A s \in Sessions :
    /\ Cardinality(sess[s].intervals) <= 1
    /\ \A iv \in sess[s].intervals : iv.id = sess[s].countdownIntervalId

\* the ticker of a second countdown is the only one
C21_Witness ==
  /\ sess[1].plays = 2
  /\ sess[1].countdownIntervalId = 2
  /\ Cardinality(sess[1].intervals) = 1
  /\ lastEvent = <<"ticker", 1>>

\* C22: a started countdown ticker stops itself without any external stop
\* call: once the remaining time to the target is <= 0, the first evaluation
\* of the ticker clears its interval and sets countdownIntervalId to null,
\* including when it is started with a target that is not in the future;
\* until then it stays active.
C22_TickerStopsItself ==
  [][\A s \in Sessions :
       TickerTimer(s) =>
         \A iv \in sess[s].intervals :
           iv.due <= now =>
             IF iv.target - now <= 0
             THEN /\ sess'[s].intervals = {}
                  /\ sess'[s].countdownIntervalId = NullId
             ELSE /\ Cardinality(sess'[s].intervals) = 1
                  /\ sess'[s].countdownIntervalId = iv.id
                  /\ sess'[s].countdownText = CeilSeconds(iv.target - now)]_vars

\* a ticker started with a target in the past has stopped at its first tick
C22_Witness ==
  /\ lastEvent = <<"ticker", 1>>
  /\ sess[1].intervals = {}
  /\ sess[1].countdownIntervalId = NullId
  /\ sess[1].nextTimerId = 2
  /\ now = TickerPeriod

\* C29: a countdown ticker is active only while the phase is Countdown: in
\* every reachable state, countdownIntervalId non-null implies
\* phase = Countdown, and so does a live interval.
C29_TickerOnlyInCountdown ==
  \A s \in Sessions :
    (sess[s].countdownIntervalId # NullId \/ sess[s].intervals # {})
       => Phase(s) = COUNTDOWN

\* the loop has just set Running at the start instant, before the ticker
\* could stop itself
C29_Witness ==
  /\ lastEvent = <<"loop", 1>>
  /\ Phase(1) = RUNNING
  /\ sess[1].isBackgroundFlashing
  /\ sess[1].startTime = now
  /\ sess[1].intervals = {}
  /\ sess[1].countdownIntervalId = NullId

\* C23: when the pause flag is set while a loop is flashing, the loop resets
\* the background to neutral and clears isBackgroundFlashing at its next
\* step boundary, and any flashing that happens after the pause is lifted
\* starts again from pattern step 0 with color1 after the wait for a start
\* instant, never from the middle of the pattern.  In terms of the steps of
\* the session: the firing that ends a step of a loop while the flag is set
\* leaves the background neutral, and the loop of the current generation in
\* its pause poll unless that step was the last; and isBackgroundFlashing
\* only ever becomes true by a loop of the current generation that enters
\* step 0 showing color1, not before its start instant.
C23_PauseResetsAndRestarts ==
  [][\A s \in Sessions :
       /\ \A k \in 1..MaxPlays :
            (/\ LoopTimer(s, k)
             /\ sess[s].loops[k].pc = "step"
             /\ sess[s].shouldPauseBackground) =>
               /\ Neutral(sess'[s])
               /\ (/\ ~IsStale(sess[s], k)
                   /\ sess[s].loops[k].i + 1 < Len(sess[s].loops[k].config.pattern))
                    => /\ sess'[s].loops[k].pc = "pause"
                       /\ sess'[s].loops[k].due = now + PollDelay
       /\ (~sess[s].isBackgroundFlashing /\ sess'[s].isBackgroundFlashing) =>
            \E k \in 1..MaxPlays :
              /\ LoopTimer(s, k)
              /\ ~IsStale(sess[s], k)
              /\ sess[s].loops[k].pc # "step"
              /\ sess'[s].loops[k].pc = "step"
              /\ sess'[s].loops[k].i = 0
              /\ sess'[s].backgroundColor = sess[s].loops[k].color1Value
              /\ now >= sess[s].loops[k].startTime]_vars

\* a loop that was paused in the middle of the pattern is in its pause poll
C23_Witness ==
  /\ lastEvent = <<"loop", 1>>
  /\ sess[1].shouldPauseBackground
  /\ Neutral(sess[1])
  /\ \E k \in CurrentLoops(sess[1]) :
       /\ sess[1].loops[k].pc = "pause"
       /\ sess[1].loops[k].i > 0
       /\ sess[1].loops[k].i < Len(sess[1].loops[k].config.pattern)

\* C24: in an Initiator session a BlinkConfig is created exactly once, on
\* the first Play: over any sequence of Play and Cancel in one session, no
\* later Play generates another config.  A session that has generated a
\* config has built its share URL from it.
C24_ConfigGeneratedOnce ==
  [][\A s \in Sessions :
       (/\ handlePlayClick(s)
        /\ sess[s].currentRole = INITIATOR
        /\ sess[s].blinkConfig = Null
        /\ sess'[s].blinkConfig # Null) => sess[s].shareUrl = NoQuery]_vars

\* the step of session s supersedes the loops or sets the pause flag
Interrupted(s) ==
  \/ sess'[s].currentAnimationId # sess[s].currentAnimationId
  \/ ~sess[s].shouldPauseBackground /\ sess'[s].shouldPauseBackground

\* loop k of session S holds the last step of its pattern
HoldsLastStep(S, k) ==
  S.loops[k].pc = "step" /\ S.loops[k].i + 1 >= Len(S.loops[k].config.pattern)

\* C25 as stated: once a loop's generation is superseded or the pause flag
\* is set, that loop observes it (stops permanently or enters the
\* pause-poll) within one wait-slice: at most 100 ms if it was
\* pause-polling and at most 750 ms otherwise, whatever the loop was doing at
\* that moment.  The loop observes nothing before its pending timer fires:
\* that timer is due within the slice, and its firing stops the loop or
\* puts it into the pause poll.
C25_ObservedWithinOneSlice ==
  [][\A s \in Sessions :
       /\ Interrupted(s) =>
            \A k \in LiveLoops(sess[s]) :
              sess[s].loops[k].due - now <=
                IF sess[s].loops[k].pc = "pause" THEN 100 ELSE 750
       /\ \A k \in 1..MaxPlays :
            (/\ LoopTimer(s, k)
             /\ (IsStale(sess[s], k) \/ sess[s].shouldPauseBackground)) =>
               sess'[s].loops[k].pc \in {"stopped", "pause"}]_vars

\* C25 amended: once a loop's generation is superseded or the pause flag is
\* set, the pending timer of the loop is due within 100 ms if it was
\* pause-polling, within 750 ms if it was holding a pattern step, and within
\* 5000 ms if it was waiting for the start instant or for the next cycle;
\* when that timer fires the loop observes it (stops permanently or enters
\* the pause-poll), except that a loop that was holding the last step of
\* the pattern resets the background and waits for the next cycle first.
C25_ObservedAtNextWake ==
  [][\A s \in Sessions :
       /\ Interrupted(s) =>
            \A k \in LiveLoops(sess[s]) :
              sess[s].loops[k].due - now <=
                CASE sess[s].loops[k].pc = "pause" -> 100
                  [] sess[s].loops[k].pc = "step" -> 750
                  [] OTHER -> CyclePeriod
       /\ \A k \in 1..MaxPlays :
            (/\ LoopTimer(s, k)
             /\ (IsStale(sess[s], k) \/ sess[s].shouldPauseBackground)) =>
               IF HoldsLastStep(sess[s], k)
               THEN /\ sess'[s].loops[k].pc = "nextCycle"
                    /\ sess'[s].loops[k].due - now <= CyclePeriod
                    /\ Neutral(sess'[s])
               ELSE /\ sess'[s].loops[k].pc \in {"stopped", "pause"}
                    /\ sess'[s].loops[k].pc = "pause" =>
                         /\ sess[s].shouldPauseBackground
                         /\ sess'[s].loops[k].due = now + PollDelay]_vars

\* a loop that was waiting for its start instant when Cancel was pressed,
\* more than 750 ms before that instant, has just entered the pause poll
C25_Witness ==
  /\ lastEvent = <<"loop", 1>>
  /\ Phase(1) = WELCOME
  /\ \E k \in LiveLoops(sess[1]) :
       /\ sess[1].loops[k].pc = "pause"
       /\ sess[1].loops[k].i = 0
       /\ sess[1].loops[k].due = sess[1].loops[k].startTime + PollDelay
       /\ sess[1].plays = 1

\* C26: currentAnimationId never decreases; every Play that starts an
\* animation loop increments it by exactly 1 before the loop is started, so
\* each loop captures a generation equal to the current one at its start
\* and different from the generation of every loop started earlier; Cancel
\* and the loops themselves never change it.
C26_GenerationCounts ==
  [][\A s \in Sessions :
       LET S == sess[s]
           T == sess'[s]
       IN  /\ T.currentAnimationId \in
                {S.currentAnimationId, S.currentAnimationId + 1}
           /\ lastEvent'[1] \in {"cancel", "loop", "ticker", "shareFailed", "tick"}
                => T.currentAnimationId = S.currentAnimationId
           /\ \A k \in 1..Len(S.loops) :
                T.loops[k].animationId = S.loops[k].animationId
           /\ Len(T.loops) # Len(S.loops) =>
                /\ Len(T.loops) = Len(S.loops) + 1
                /\ lastEvent' \in {<<"play", s>>, <<"shared", s>>}
                /\ T.currentAnimationId = S.currentAnimationId + 1
                /\ T.loops[Len(T.loops)].animationId = T.currentAnimationId
                /\ \A k \in 1..Len(S.loops) :
                     S.loops[k].animationId < T.currentAnimationId]_vars

\* the second loop of a session has just been started
C26_Witness ==
  /\ Len(sess[1].loops) = 2
  /\ sess[1].loops[1].animationId = 1
  /\ sess[1].loops[2].animationId = 2
  /\ sess[1].currentAnimationId = 2
  /\ sess[1].loops[2].pc = "waitStart"
  /\ lastEvent \in {<<"play", 1>>, <<"shared", 1>>}

\* C27: when the Initiator's first Play generates a config and the share
\* attempt fails, the session is left unharmed: the phase stays Welcome,
\* currentAnimationId is unchanged, no animation loop and no ticker is
\* started, and the generated config is kept; the next Play then goes to
\* Countdown with that same config without generating a new one and without
\* another share attempt.
C27_ShareFailureIsHarmless ==
  [][\A s \in Sessions :
       LET S == sess[s]
           T == sess'[s]
       IN  /\ ShareFails(s) =>
                /\ T.currentState = S.currentState
                /\ T.currentAnimationId = S.currentAnimationId
                /\ T.loops = S.loops
                /\ T.intervals = S.intervals
                /\ T.countdownIntervalId = S.countdownIntervalId
                /\ T.blinkConfig = S.blinkConfig
                /\ S.plays = 1 =>
                     /\ T.currentState = WELCOME
                     /\ T.blinkConfig # Null
                     /\ T.currentAnimationId = 0
                     /\ T.loops = << >>
                     /\ T.intervals = {}
           /\ (handlePlayClick(s) /\ S.blinkConfig # Null) =>
                /\ T.currentState = COUNTDOWN
                /\ T.blinkConfig = S.blinkConfig
                /\ T.shareUrl = S.shareUrl
                /\ T.pendingShares = S.pendingShares
                /\ Len(T.loops) = Len(S.loops) + 1
                /\ T.loops[Len(T.loops)].config = S.blinkConfig]_vars

\* the Play after a failed share: Countdown, with the config of the first
\* Play and the fallback still shown
C27_Witness ==
  /\ lastEvent = <<"play", 1>>
  /\ sess[1].currentRole = INITIATOR
  /\ sess[1].plays = 2
  /\ sess[1].instructions = "fallback"
  /\ Phase(1) = COUNTDOWN
  /\ sess[1].pendingShares = 0
  /\ sess[1].currentAnimationId = 1
  /\ sess[1].shareUrl = generateShareUrl(sess[1].blinkConfig)

\* C30: once blinkConfig is present its four fields never change; the only
\* change ever made to a present config is Cancel setting it absent, and a
\* running loop keeps using the config it captured at start even after the
\* session config becomes absent or is replaced.
C30_ConfigImmutable ==
  [][\A s \in Sessions :
       /\ sess[s].blinkConfig # Null =>
            \/ sess'[s].blinkConfig = sess[s].blinkConfig
            \/ sess'[s].blinkConfig = Null /\ handleCancelClick(s)
       /\ \A k \in 1..Len(sess[s].loops) :
            sess'[s].loops[k].config = sess[s].loops[k].config]_vars

\* a loop polls with the config it captured while the session holds the
\* config of a later Play
C30_Witness ==
  /\ lastEvent = <<"loop", 1>>
  /\ sess[1].blinkConfig # Null
  /\ \E k \in LiveLoops(sess[1]) :
       /\ sess[1].loops[k].config # sess[1].blinkConfig
       /\ sess[1].loops[k].config.pattern # sess[1].blinkConfig.pattern

\* s is a string over the alphabet {'.', '-'}
OverDotDash(s) == \A j \in 1..Len(s) : s[j] \in {".", "-"}

\* C28 as stated: every one of the 10 entries of the pattern table is a
\* string over the alphabet {'.', '-'} whose length is between 7 and 10
\* symbols inclusive; so is the pattern of every decoded config.
C28_PatternsOf7To10 ==
  /\ Len(PATTERNS) = 10
  /\ \A j \in 1..Len(PATTERNS) :
       OverDotDash(PATTERNS[j]) /\ Len(PATTERNS[j]) \in 7..10
  /\ (probe.fn = "codec" /\ probe.done) =>
       OverDotDash(probe.result.pattern) /\ Len(probe.result.pattern) \in 7..10

\* C28 amended: every one of the 10 entries of the pattern table is a string
\* over the alphabet {'.', '-'} whose length is between 6 and 10 symbols
\* inclusive; so is the pattern of every decoded config.
C28_PatternsOf6To10 ==
  /\ Len(PATTERNS) = 10
  /\ \A j \in 1..Len(PATTERNS) :
       OverDotDash(PATTERNS[j]) /\ Len(PATTERNS[j]) \in 6..10
  /\ (probe.fn = "codec" /\ probe.done) =>
       OverDotDash(probe.result.pattern) /\ Len(probe.result.pattern) \in 6..10

\* a link with p=8 has been decoded: its pattern has 6 symbols
C28_Witness ==
  /\ probe.fn = "codec" /\ probe.done
  /\ probe.url[3].value = << "8" >>
  /\ probe.result.pattern = PATTERNS[9]
  /\ Len(probe.result.pattern) = 6

\* C31 as stated: in every reachable state at most one live animation loop
\* (one with a pending timer) has a captured generation equal to
\* currentAnimationId; every other live loop is stale and stops at its next
\* generation check.  The generation is checked when a timer of the loop
\* fires, except after the last step of the pattern.
C31_StaleLoopStopsAtCheck ==
  [][\A s \in Sessions :
       /\ Cardinality(CurrentLoops(sess'[s])) <= 1
       /\ \A k \in 1..MaxPlays :
            (/\ LoopTimer(s, k)
             /\ IsStale(sess[s], k)
             /\ ~HoldsLastStep(sess[s], k)) =>
               sess'[s].loops[k].pc = "stopped"]_vars

\* C31 amended: in every reachable state at most one live animation loop has
\* a captured generation equal to currentAnimationId; every other live loop
\* is stale and stops at its next generation check, except that a stale loop
\* whose wait for the start instant ends while the pause flag is set polls
\* once (100 ms) and stops at the check after that.
C31_StaleLoopStopsAtCheckOrPoll ==
  [][\A s \in Sessions :
       /\ Cardinality(CurrentLoops(sess'[s])) <= 1
       /\ \A k \in 1..MaxPlays :
            (/\ LoopTimer(s, k)
             /\ IsStale(sess[s], k)
             /\ ~HoldsLastStep(sess[s], k)) =>
               IF sess[s].loops[k].pc = "waitStart"
                  /\ sess[s].shouldPauseBackground
               THEN /\ sess'[s].loops[k].pc = "pause"
                    /\ sess'[s].loops[k].due = now + PollDelay
                    /\ sess'[s].backgroundColor = sess[s].backgroundColor
               ELSE sess'[s].loops[k].pc = "stopped"]_vars

\* a stale loop polls after its start wait while a later loop of the session
\* is live; and then it has stopped
C31_Witness ==
  /\ lastEvent = <<"loop", 1>>
  /\ Len(sess[1].loops) = 2
  /\ IsStale(sess[1], 1)
  /\ sess[1].loops[1].pc = "stopped"
  /\ now >= sess[1].loops[1].startTime + PollDelay
  /\ sess[1].loops[1].startTime > 0
  /\ sess[1].loops[1].i = 0
  /\ sess[1].shouldPauseBackground
  /\ 2 \in LiveLoops(sess[1])

\* C32: a loop that has observed the pause flag set (has entered the 100 ms
\* pause-poll) never flashes again: the pause flag is cleared only by a
\* Play, which increments currentAnimationId in the same uninterrupted step,
\* so the loop sees a superseded generation before it can see the flag
\* cleared.
C32_PausedLoopNeverFlashes ==
  [][\A s \in Sessions :
       /\ (sess[s].shouldPauseBackground /\ ~sess'[s].shouldPauseBackground) =>
            /\ lastEvent' \in {<<"play", s>>, <<"shared", s>>}
            /\ sess'[s].currentAnimationId = sess[s].currentAnimationId + 1
       /\ \A k \in 1..Len(sess[s].loops) :
            /\ sess[s].loops[k].pc = "pause" =>
                 /\ sess'[s].loops[k].pc \in {"pause", "stopped"}
                 /\ ~sess[s].shouldPauseBackground => IsStale(sess[s], k)
                 /\ (LoopTimer(s, k) /\ sess'[s].loops[k].pc = "pause") =>
                      /\ sess[s].shouldPauseBackground
                      /\ sess'[s].backgroundColor = sess[s].backgroundColor
                      /\ sess'[s].isBackgroundFlashing
                           = sess[s].isBackgroundFlashing
            /\ sess[s].loops[k].pc = "stopped" =>
                 sess'[s].loops[k] = sess[s].loops[k]]_vars

\* Play has just cleared the flag while a loop was polling: that loop is
\* now stale, and the loop of this Play waits for its start instant
C32_Witness ==
  /\ lastEvent \in {<<"play", 1>>, <<"shared", 1>>}
  /\ ~sess[1].shouldPauseBackground
  /\ Len(sess[1].loops) = 2
  /\ sess[1].loops[1].pc = "pause"
  /\ sess[1].loops[1].due > now
  /\ IsStale(sess[1], 1)
  /\ sess[1].loops[2].pc = "waitStart"
  /\ ~IsStale(sess[1], 2)

\* the time runPattern holds the steps of pattern p in all
RECURSIVE TotalDuration(_)
TotalDuration(p) ==
  IF p = << >> THEN 0 ELSE Duration(Head(p)) + TotalDuration(Tail(p))

\* the start of the cycle that loop l is in at instant t
CycleStart(l, t) ==
  l.startTime + CyclePeriod * ((t - l.startTime) \div CyclePeriod)

\* C33: every entry of the pattern table has a total step duration of
\* exactly 4000 ms (250 ms per '.', 750 ms per '-'), so with timers firing
\* on time the consecutive flashing cycles of one uninterrupted loop start
\* exactly 5000 ms apart, alternating between seconds ending in timeOffset
\* and in (timeOffset+5) mod 10, with exactly 1000 ms of neutral background
\* between cycles.
C33_CycleEvery5000 ==
  [][/\ \A j \in 1..Len(PATTERNS) : TotalDuration(PATTERNS[j]) = 4000
     /\ \A s \in Sessions : \A k \in 1..MaxPlays :
          (/\ LoopTimer(s, k)
           /\ ~IsStale(sess[s], k)
           /\ ~sess[s].shouldPauseBackground) =>
             LET l == sess[s].loops[k]
                 l2 == sess'[s].loops[k]
                 n == (now - l.startTime) \div CyclePeriod
             IN  /\ now >= l.startTime
                 /\ l2.pc \in {"step", "nextCycle"}
                 /\ l2.pc = "step" =>
                      /\ now = CycleStart(l, now)
                               + TotalDuration(SubSeq(l.config.pattern, 1, l2.i))
                      /\ sess'[s].backgroundColor # CssValue(DefaultColor)
                      /\ l2.i = 0 =>
                           /\ now = l.startTime + CyclePeriod * n
                           /\ DigitMatches(now, l.config.timeOffset)
                           /\ (now \div 1000) % 10
                                = ((l.startTime \div 1000) + 5 * n) % 10
                 /\ l2.pc = "nextCycle" =>
                      /\ now = CycleStart(l, now) + 4000
                      /\ l2.due = now + 1000
                      /\ l2.due = CycleStart(l, now) + CyclePeriod
                      /\ Neutral(sess'[s])
     /\ \A s \in Sessions : \A k \in CurrentLoops(sess'[s]) :
          sess'[s].loops[k].pc = "nextCycle" => Neutral(sess'[s])]_vars

\* the second cycle of a loop begins, 5000 ms after the first, in a second
\* that ends in the other digit
C33_Witness ==
  /\ lastEvent = <<"loop", 1>>
  /\ \E k \in CurrentLoops(sess[1]) :
       LET l == sess[1].loops[k]
       IN  /\ l.pc = "step" /\ l.i = 0
           /\ now = l.startTime + CyclePeriod
           /\ (l.startTime \div 1000) % 10 # (now \div 1000) % 10
           /\ sess[1].backgroundColor = l.color1Value
           /\ l.config.pattern \in PatternSet

\* C34: in every reachable state, isBackgroundFlashing = true implies
\* phase = Running, and a non-neutral background colour implies
\* isBackgroundFlashing = true.
C34_FlashingOnlyWhenRunning ==
  \A s \in Sessions :
    /\ sess[s].isBackgroundFlashing => Phase(s) = RUNNING
    /\ sess[s].backgroundColor # CssValue(DefaultColor) =>
         sess[s].isBackgroundFlashing

\* the candidate seconds the search loop has examined when it returns r at
\* instant t: it starts at the second after t's and goes up by one
CandidatesExamined(r, t) == (r \div 1000) - (t \div 1000)

\* C35: for every digit d in 0..9 and every instant now, the wait computed
\* by getNextStartTime is bounded: 0 < getNextStartTime(d) - now <= 5000 ms,
\* and the search loop inside it ends after examining at most 5 candidate
\* seconds.
C35_WaitBounded ==
  (probe.fn = "getNextStartTime" /\ probe.done) =>
     /\ 0 < probe.result - now
     /\ probe.result - now <= 5000
     /\ CandidatesExamined(probe.result, now) \in 1..5

\* the longest wait: the clock is at the start of a second that ends in d
C35_Witness ==
  /\ probe.fn = "getNextStartTime" /\ probe.done
  /\ now = 3000 /\ probe.digit = 8
  /\ probe.result - now = 5000
  /\ CandidatesExamined(probe.result, now) = 5

\* C36: getNextStartTime depends only on the digit modulo 5 and on the
\* current whole second: for every d in 0..9 and all instants t1, t2 with
\* floor(t1/1000) = floor(t2/1000), the result for d at t1 equals the result
\* for (d+5) mod 10 at t2.
C36_DigitModuloFive ==
  (probe.fn = "sameSecond" /\ probe.calls = 2
   /\ probe.t1 \div 1000 = probe.t2 \div 1000) =>
     /\ probe.r1 = probe.r2
     /\ probe.r1 = getNextStartTime(probe.digit % 5, 1000 * (probe.t1 \div 1000))

\* the calls for 7 and for 2, most of a second apart, give the same instant
C36_Witness ==
  /\ probe.fn = "sameSecond" /\ probe.calls = 2
  /\ probe.digit = 7
  /\ probe.t1 = 4000 /\ probe.t2 = 4999
  /\ probe.r1 = 7000 /\ probe.r2 = 7000

\* C37: during a countdown started by Play, every value the ticker writes to
\* the countdown text is an integer in 1..5, the values are non-increasing
\* over the ticks of that countdown, and the ticker never writes a value of
\* 0 or less.  The ticker writes when it is started and at each tick that
\* finds time left.
C37_CountdownValues ==
  [][\A s \in Sessions :
       /\ (lastEvent' \in {<<"play", s>>, <<"shared", s>>}
           /\ sess'[s].intervals # {}) =>
            \A iv \in sess'[s].intervals :
              /\ iv.target - now > 0
              /\ sess'[s].countdownText = CeilSeconds(iv.target - now)
              /\ sess'[s].countdownText \in 1..5
       /\ TickerTimer(s) =>
            \A iv \in sess[s].intervals :
              iv.due <= now =>
                IF iv.target - now > 0
                THEN /\ sess'[s].countdownText = CeilSeconds(iv.target - now)
                     /\ sess'[s].countdownText \in 1..5
                     /\ sess'[s].countdownText <= sess[s].countdownText
                ELSE sess'[s].countdownText = sess[s].countdownText
       /\ sess'[s].intervals # {} => sess'[s].countdownText \in 1..5]_vars

\* the countdown to 6000 has come down to 1
C37_Witness ==
  /\ lastEvent = <<"ticker", 1>>
  /\ sess[1].countdownText = 1
  /\ now > 5000
  /\ \E iv \in sess[1].intervals : iv.target = 6000
  /\ sess[1].plays = 1

====
